---- MODULE Spec2Model ----
(***************************************************************************)
(* Multi-stop route optimizer of backend/utils/geo_operations.py:          *)
(* LocationServices._get_distance_matrix (the distance matrix builder),    *)
(* LocationServices._held_karp_algorithm (the tour solver) and             *)
(* LocationServices.optimize_route (the orchestration).                    *)
(*                                                                         *)
(* Distances are integers (meters).  float('inf') is the value Inf, which  *)
(* absorbs addition and is larger than every finite cost of the model.     *)
(* The visited bitmask is the set of the indices whose bit is set; node    *)
(* indices are 0-based as in the source, Python lists are 1-based TLA+     *)
(* sequences.                                                              *)
(***************************************************************************)
EXTENDS Integers, Sequences, FiniteSets, TLC

\* ------------------------------------------------------------------------
\* Bounds of the model
\* ------------------------------------------------------------------------
\* longest address list whose responses are varied
MaxN == 3
\* largest distance a deviating element of a response may report
MaxDist == 2
\* number of response elements that may deviate from the base distances
MaxDev == 1

\* ------------------------------------------------------------------------
\* Values
\* ------------------------------------------------------------------------
\* float('inf')
Inf == 1000000

\* start_idx=0, the default the orchestration relies on
start_idx == 0

\* the [(0, -1)] default of memo.get and the initial prev_city / last_city
NoCity == -1

\* a + b on floats: infinity absorbs
Add(a, b) == IF a = Inf \/ b = Inf THEN Inf ELSE a + b

\* visited ^ (1 << city): toggles the bit of city
Xor(visited, city) == IF city \in visited THEN visited \ {city} ELSE visited \cup {city}

\* list.reverse()
ReverseBad(s) == s
Reverse(s) == [k \in 1..Len(s) |-> s[Len(s) + 1 - k]]

\* float(distance / 1000): kilometers, exact to the meter
\* (whole kilometers and the remaining thousandths)
Km(distance) ==
    IF distance = Inf THEN [whole |-> Inf, milli |-> 0]
    ELSE [whole |-> distance \div 1000, milli |-> distance % 1000]

\* the literal 0 of the degenerate and error results
ZeroKm == [whole |-> 0, milli |-> 0]

\* ------------------------------------------------------------------------
\* Inputs: address lists and the distance collaborator
\* ------------------------------------------------------------------------
\* the stops of the end-to-end scenario, and further stops
Scenario == <<"Depot", "A", "B", "C">>
StopNames == Scenario \o <<"D", "E">>

\* An address is either a plain string (the annotation list[str]) or a
\* mapping with a 'full_address' entry (what addr['full_address'] needs).
Kinds == {"str", "dict"}

AddressList(n, kind) == [i \in 1..n |-> [kind |-> kind, text |-> StopNames[i]]]

\* every list of up to MaxN stops, and the list of the scenario
AddressLists ==
    {AddressList(n, kind) : n \in (0..MaxN) \cup {Len(Scenario)}, kind \in Kinds}

\* element of a response row: status OK with distance.value, or a failure
OkElement(d) == [status |-> "OK", value |-> d]
FailElement == [status |-> "NOT_FOUND", value |-> 0]
Elements == {OkElement(d) : d \in 0..MaxDist} \cup {FailElement}

\* Base distances (meters) between the stops: Depot-A 2, A-C 3, C-B 2,
\* B-Depot 3, Depot-C 9, A-B 9, symmetric; every further stop is 5 away.
\* The shortest closed tour of the first four stops is Depot, A, C, B
\* (or its reverse) with cost 10.
BaseDist(i, j) ==
    IF i = j THEN 0
    ELSE LET p == {i, j} IN
         IF p = {1, 2} THEN 2
         ELSE IF p = {2, 4} THEN 3
         ELSE IF p = {3, 4} THEN 2
         ELSE IF p = {1, 3} THEN 3
         ELSE IF p = {1, 4} THEN 9
         ELSE IF p = {2, 3} THEN 9
         ELSE 5

BaseRows(n) == [i \in 1..n |-> [j \in 1..n |-> OkElement(BaseDist(i, j))]]

\* rows that differ from the base rows in at most MaxDev elements
RECURSIVE Deviate(_, _, _, _)
Deviate(rows, cells, elems, k) ==
    IF k = 0 THEN rows
    ELSE LET r == Deviate(rows, cells, elems, k - 1)
             c == cells[k]
         IN [r EXCEPT ![c[1]][c[2]] = elems[k]]

RowsFamily(n) ==
    IF n = 0 THEN {<<>>}
    ELSE {Deviate(BaseRows(n), cells, elems, MaxDev) :
              cells \in [1..MaxDev -> (1..n) \X (1..n)],
              elems \in [1..MaxDev -> Elements]}

\* What the collaborator does with the one batched request:
\*   throw     requests.get or response.json() raises
\*   malformed the JSON body has no 'rows' entry
\*   rejected  non-OK top-level status, "rows": []
\*   rows      one row per origin, one element per destination
\* (a list longer than MaxN is answered with the base distances only)
Collaborators(n) ==
    {[mode |-> m, rows |-> <<>>] : m \in {"throw", "malformed", "rejected"}}
    \cup {[mode |-> "rows", rows |-> r] :
              r \in IF n <= MaxN THEN RowsFamily(n) ELSE {BaseRows(n)}}

NoCollab == [mode |-> "none", rows |-> <<>>]

\* ------------------------------------------------------------------------
\* _get_distance_matrix: the rows of the response become the matrix
\* ------------------------------------------------------------------------
\* addr['full_address'] raises TypeError on a plain string
HasFullAddress(addr) == addr.kind = "dict"

\* origins = '|'.join([addr['full_address'] for addr in addresses]) and
\* destinations = origins: the one request names every address as an origin
\* and as a destination (the joined string is kept as the list of its parts)
BatchRequest(addrs) ==
    LET origins == [k \in 1..Len(addrs) |-> addrs[k].text]
    IN [origins |-> origins, destinations |-> origins]

\* the if/else on element['status']
ElementDistanceZero(element) ==
    IF element.status = "OK" THEN element.value ELSE 0
ElementDistance(element) ==
    IF element.status = "OK" THEN element.value ELSE Inf

\* the two nested loops and np.array(matrix), 0-based
ParseRowsBad(rows) ==
    [i \in 0..(Len(rows) - 1) |->
        [j \in 0..(Len(rows[i + 1]) - 1) |->
            IF \E h \in 1..Len(rows[i + 1]) : rows[i + 1][h].status # "OK"
            THEN Inf ELSE rows[i + 1][j + 1].value]]
ParseRows(rows) ==
    [i \in 0..(Len(rows) - 1) |->
        [j \in 0..(Len(rows[i + 1]) - 1) |-> ElementDistance(rows[i + 1][j + 1])]]

\* len(distance_matrix)
Size(distance_matrix) == Cardinality(DOMAIN distance_matrix)

\* ------------------------------------------------------------------------
\* _held_karp_algorithm
\* ------------------------------------------------------------------------
\* memo = {} at the start of every call (line 204); previous is the table
\* the preceding call left behind
EmptyMemo == [key \in {} |-> <<0, NoCity>>]
NewMemoBad(previous) == previous
NewMemo(previous) == EmptyMemo

\* dp and its for loop return the value together with the memo table as it
\* is after the call and the keys the call wrote to the table (line 227),
\* in the order of the writes; a value is (min_cost, prev_city)
RECURSIVE dp(_, _, _, _)
RECURSIVE dpLoop(_, _, _, _, _, _)

\* the for loop of dp over city = 0 .. n-1; best is (min_cost, prev_city)
dpLoop(distance_matrix, memo, visited, last, city, best) ==
    IF city >= Size(distance_matrix)
    THEN [val |-> best, memo |-> memo, written |-> <<>>]
    ELSE IF city \in visited /\ city # last
         THEN LET new_visited == Xor(visited, last)
                  sub == dp(distance_matrix, memo, new_visited, city)
                  cost == sub.val[1]
                  total_cost == Add(cost, distance_matrix[city][last])
                  rest == dpLoop(distance_matrix, sub.memo, visited, last, city + 1,
                                 IF total_cost < best[1] THEN <<total_cost, city>>
                                 ELSE best)
              IN [rest EXCEPT !.written = sub.written \o @]
         ELSE dpLoop(distance_matrix, memo, visited, last, city + 1, best)

\* The three exits of dp: the base case (lines 207-208), the memo hit
\* (lines 210-211), the loop with the write to the table (lines 213-228).

\* a base case of cost 0
dpBaseZero(distance_matrix, memo, visited, last) ==
    [val |-> <<0, start_idx>>, memo |-> memo, written |-> <<>>]

\* a base case that is recorded in the table
dpBaseMemo(distance_matrix, memo, visited, last) ==
    LET val == <<distance_matrix[last][start_idx], start_idx>>
    IN [val |-> val,
        memo |-> (<<visited, last>> :> val) @@ memo,
        written |-> <<<<visited, last>>>>]

\* return distance_matrix[last][start_idx], start_idx
dpBase(distance_matrix, memo, visited, last) ==
    [val |-> <<distance_matrix[last][start_idx], start_idx>>, memo |-> memo,
     written |-> <<>>]

\* return memo[(visited, last)]
dpHit(distance_matrix, memo, visited, last) ==
    [val |-> memo[<<visited, last>>], memo |-> memo, written |-> <<>>]

\* the loop, memo[(visited, last)] = (min_cost, prev_city), and the return
dpCompute(distance_matrix, memo, visited, last) ==
    LET r == dpLoop(distance_matrix, memo, visited, last, 0, <<Inf, NoCity>>)
    IN [val |-> r.val,
        memo |-> (<<visited, last>> :> r.val) @@ r.memo,
        written |-> Append(r.written, <<visited, last>>)]

\* dp with the base case taken for every one-node visited set
dpAnyBase(distance_matrix, memo, visited, last) ==
    IF Cardinality(visited) = 1
    THEN dpBase(distance_matrix, memo, visited, last)
    ELSE IF <<visited, last>> \in DOMAIN memo
    THEN dpHit(distance_matrix, memo, visited, last)
    ELSE dpCompute(distance_matrix, memo, visited, last)

\* dp(visited, last) -> (min_cost, prev_city)
dp(distance_matrix, memo, visited, last) ==
    IF visited = {start_idx}
    THEN dpBase(distance_matrix, memo, visited, last)
    ELSE IF <<visited, last>> \in DOMAIN memo
    THEN dpHit(distance_matrix, memo, visited, last)
    ELSE dpCompute(distance_matrix, memo, visited, last)

\* (1 << n) - 1
AllVisited(distance_matrix) == 0..(Size(distance_matrix) - 1)

\* memo.get((visited, current), (0, -1))
MemoGetBad(memo, visited, current) ==
    IF <<visited, current>> \in DOMAIN memo THEN memo[<<visited, current>>]
    ELSE IF visited = {start_idx} THEN <<0, start_idx>>
    ELSE <<0, NoCity>>
MemoGet(memo, visited, current) ==
    IF <<visited, current>> \in DOMAIN memo THEN memo[<<visited, current>>]
    ELSE <<0, NoCity>>

\* if cost < min_total
ImprovesBad(cost, min_total) == cost <= min_total
Improves(cost, min_total) == cost < min_total

\* the top-level for loop; best is (min_total, last_city)
RECURSIVE TopLoop(_, _, _, _)
TopLoop(distance_matrix, memo, city, best) ==
    IF city >= Size(distance_matrix)
    THEN [val |-> best, memo |-> memo, written |-> <<>>]
    ELSE IF city # start_idx
         THEN LET sub == dp(distance_matrix, memo, AllVisited(distance_matrix), city)
                  cost == sub.val[1]
                  rest == TopLoop(distance_matrix, sub.memo, city + 1,
                                  IF Improves(cost, best[1]) THEN <<cost, city>>
                                  ELSE best)
              IN [rest EXCEPT !.written = sub.written \o @]
         ELSE TopLoop(distance_matrix, memo, city + 1, best)

\* the while loop of the reconstruction
RECURSIVE Reconstruct(_, _, _, _)
Reconstruct(memo, visited, current, route) ==
    IF current = NoCity THEN route
    ELSE LET appended == Append(route, current)
             prev == MemoGet(memo, visited, current)[2]
         IN IF prev = NoCity THEN appended
            ELSE Reconstruct(memo, Xor(visited, current), prev, appended)

\* _held_karp_algorithm(distance_matrix) -> (route, min_total), the memo
\* table the call ends with and the keys it wrote; previous is the table of
\* the preceding call
HeldKarp(distance_matrix, previous) ==
    LET top == TopLoop(distance_matrix, NewMemo(previous), 0, <<Inf, NoCity>>)
    IN [route |-> Reverse(Reconstruct(top.memo, AllVisited(distance_matrix),
                                      top.val[2], <<>>)),
        cost |-> top.val[1],
        memo |-> top.memo,
        written |-> top.written]

\* ------------------------------------------------------------------------
\* State
\* ------------------------------------------------------------------------
VARIABLES
    pc,               \* position of the optimize_route call
    addresses,        \* the caller's list
    collab,           \* what the distance collaborator does with the request
    distance_matrix,  \* what _get_distance_matrix returned
    solver,           \* what _held_karp_algorithm returned
    memo,             \* the memo table of the latest solver call
    earlier,          \* an earlier solver call: its matrix, return and memo
    result,           \* what optimize_route returned
    raised,           \* the exception raised inside the try block
    trace,            \* builder entry, requests, matrix, solver entry, in order
    requests,         \* the requests sent to the distance collaborator
    written,          \* the memo keys the latest solver call wrote, in order
    caller            \* the caller's list as it was passed, and whether the
                      \* returned optimized_route is that list object itself

vars == <<pc, addresses, collab, distance_matrix, solver, memo, earlier, result,
          raised, trace, requests, written, caller>>

NoSolver == [returned |-> FALSE, route |-> <<>>, cost |-> 0]
NoEarlier == [returned |-> FALSE, matrix |-> <<>>, route |-> <<>>, cost |-> 0,
              memo |-> EmptyMemo, others |-> FALSE]
NoResult == [status |-> "none", optimized_route |-> <<>>, distance_km |-> ZeroKm]
NoCaller == [passed |-> <<>>, same_list |-> FALSE]

\* if n <= 1
IsDegenerateBad(n) == n < 1
IsDegenerate(n) == n <= 1

\* except Exception: every exception the try block raises here is one
CatchesBad(exception) == exception = "KeyError"
Catches(exception) == exception \in {"TypeError", "RequestException", "KeyError"}

\* [addresses[i] for i in route]
MapRoute(addrs, route) == [k \in 1..Len(route) |-> addrs[route[k] + 1]]

Init ==
    /\ pc = "idle"
    /\ addresses = <<>>
    /\ collab = NoCollab
    /\ distance_matrix = <<>>
    /\ solver = NoSolver
    /\ memo = EmptyMemo
    /\ earlier = NoEarlier
    /\ result = NoResult
    /\ raised = "none"
    /\ trace = <<>>
    /\ requests = <<>>
    /\ written = <<>>
    /\ caller = NoCaller

\* optimize_route, lines 260-271: the degenerate return or the call of
\* the builder
OptimizeRoute ==
    /\ pc = "idle"
    /\ \E addrs \in AddressLists :
       \E c \in Collaborators(Len(addrs)) :
          /\ addresses' = addrs
          /\ collab' = c
          /\ IF IsDegenerate(Len(addrs))
             THEN /\ result' = [status |-> "success",
                                optimized_route |-> addrs,
                                distance_km |-> ZeroKm]
                  /\ caller' = [passed |-> addrs, same_list |-> TRUE]
                  /\ pc' = "done"
             ELSE /\ result' = result
                  /\ caller' = [passed |-> addrs, same_list |-> FALSE]
                  /\ pc' = "build"
    /\ UNCHANGED <<distance_matrix, solver, memo, earlier, raised, trace, requests,
                   written>>

\* _get_distance_matrix, lines 176-199
GetDistanceMatrix ==
    /\ pc = "build"
    /\ IF \E k \in 1..Len(addresses) : ~HasFullAddress(addresses[k])
       THEN \* line 179 raises before any request is made
            /\ raised' = "TypeError"
            /\ pc' = "except"
            /\ trace' = trace \o <<"builder">>
            /\ UNCHANGED <<distance_matrix, requests>>
       ELSE IF collab.mode = "throw"
       THEN \* lines 184-185
            /\ raised' = "RequestException"
            /\ pc' = "except"
            /\ trace' = trace \o <<"builder", "request">>
            /\ requests' = Append(requests, BatchRequest(addresses))
            /\ UNCHANGED distance_matrix
       ELSE IF collab.mode = "malformed"
       THEN \* line 188: data['rows']
            /\ raised' = "KeyError"
            /\ pc' = "except"
            /\ trace' = trace \o <<"builder", "request">>
            /\ requests' = Append(requests, BatchRequest(addresses))
            /\ UNCHANGED distance_matrix
       ELSE /\ distance_matrix' = ParseRows(collab.rows)
            /\ pc' = "solve"
            /\ trace' = trace \o <<"builder", "request", "matrix">>
            /\ requests' = Append(requests, BatchRequest(addresses))
            /\ UNCHANGED raised
    /\ UNCHANGED <<addresses, collab, solver, memo, earlier, result, written, caller>>

\* lines 272-279 with the caller's list reordered in place and returned
SolveInPlace ==
    /\ pc = "solve"
    /\ LET hk == HeldKarp(distance_matrix, memo) IN
       /\ solver' = [returned |-> TRUE, route |-> hk.route, cost |-> hk.cost]
       /\ memo' = hk.memo
       /\ written' = hk.written
       /\ addresses' = MapRoute(addresses, hk.route)
       /\ result' = [status |-> "success",
                     optimized_route |-> MapRoute(addresses, hk.route),
                     distance_km |-> Km(hk.cost)]
    /\ caller' = [caller EXCEPT !.same_list = TRUE]
    /\ trace' = Append(trace, "solver")
    /\ pc' = "done"
    /\ UNCHANGED <<collab, distance_matrix, earlier, raised, requests>>

\* lines 272-279: the solver, the mapping back to addresses (a new list),
\* the result
Solve ==
    /\ pc = "solve"
    /\ LET hk == HeldKarp(distance_matrix, memo) IN
       /\ solver' = [returned |-> TRUE, route |-> hk.route, cost |-> hk.cost]
       /\ memo' = hk.memo
       /\ written' = hk.written
       /\ result' = [status |-> "success",
                     optimized_route |-> MapRoute(addresses, hk.route),
                     distance_km |-> Km(hk.cost)]
    /\ caller' = [caller EXCEPT !.same_list = FALSE]
    /\ trace' = Append(trace, "solver")
    /\ pc' = "done"
    /\ UNCHANGED <<addresses, collab, distance_matrix, earlier, raised, requests>>

\* lines 281-286 with the exception swallowed and the call carried on
ExceptResume ==
    /\ pc = "except"
    /\ pc' = "solve"
    /\ UNCHANGED <<addresses, collab, distance_matrix, solver, memo, earlier, result,
                   raised, trace, requests, written, caller>>

\* lines 281-286: the error result holds the caller's list itself
Except ==
    /\ pc = "except"
    /\ IF Catches(raised)
       THEN /\ result' = [status |-> "error",
                          optimized_route |-> addresses,
                          distance_km |-> ZeroKm]
            /\ caller' = [caller EXCEPT !.same_list = TRUE]
            /\ pc' = "done"
       ELSE /\ pc' = "propagated"
            /\ UNCHANGED <<result, caller>>
    /\ UNCHANGED <<addresses, collab, distance_matrix, solver, memo, earlier, raised,
                   trace, requests, written>>

Next == OptimizeRoute \/ GetDistanceMatrix \/ Solve \/ Except

Spec == Init /\ [][Next]_vars

\* ------------------------------------------------------------------------
\* Sequences of solver calls on one LocationServices object
\* ------------------------------------------------------------------------
\* the matrices of the calls: the base distances of 0..MaxN stops, and
\* those with one changed or failed element in the row of the start node
MatricesOfSize(n) ==
    {ParseRows(r) : r \in {BaseRows(n)} \cup
                         {[BaseRows(n) EXCEPT ![1][j] = e] : j \in 2..n, e \in Elements}}

SolverMatrices == UNION {MatricesOfSize(n) : n \in 0..MaxN}

\* one call _held_karp_algorithm(m), lines 202-257
SolverCall ==
    \E m \in SolverMatrices :
        LET hk == HeldKarp(m, memo) IN
        /\ distance_matrix' = m
        /\ solver' = [returned |-> TRUE, route |-> hk.route, cost |-> hk.cost]
        /\ memo' = hk.memo
        /\ written' = hk.written
        /\ earlier' = IF earlier.returned /\ m # earlier.matrix
                      THEN [earlier EXCEPT !.others = TRUE]
                      ELSE earlier
        /\ UNCHANGED <<pc, addresses, collab, result, raised, trace, requests, caller>>

\* the latest call is kept for comparison with the calls that follow
NoteCall ==
    /\ solver.returned
    /\ earlier' = [returned |-> TRUE, matrix |-> distance_matrix,
                   route |-> solver.route, cost |-> solver.cost,
                   memo |-> memo, others |-> FALSE]
    /\ UNCHANGED <<pc, addresses, collab, distance_matrix, solver, memo, result,
                   raised, trace, requests, written, caller>>

NextSolver == SolverCall \/ NoteCall

SpecSolver == Init /\ [][NextSolver]_vars

\* ------------------------------------------------------------------------
\* Reference definitions
\* ------------------------------------------------------------------------
TypeOK ==
    /\ pc \in {"idle", "build", "solve", "except", "done", "propagated"}
    /\ result.status \in {"none", "success", "error"}

\* all orderings of the nodes of S as sequences
RECURSIVE Perms(_)
Perms(S) ==
    IF S = {} THEN {<<>>}
    ELSE UNION {{<<x>> \o p : p \in Perms(S \ {x})} : x \in S}

\* the orderings of 0..n-1 that begin at the start node
Orderings(n) == {<<start_idx>> \o p : p \in Perms((0..(n - 1)) \ {start_idx})}

\* the sum of the legs between consecutive nodes of an ordering
RECURSIVE LegSum(_, _, _)
LegSum(m, ord, k) ==
    IF k >= Len(ord) THEN 0
    ELSE Add(m[ord[k]][ord[k + 1]], LegSum(m, ord, k + 1))

\* open-path cost and closed-cycle cost of an ordering
PathCost(m, ord) == LegSum(m, ord, 1)
CycleCost(m, ord) == Add(PathCost(m, ord), m[ord[Len(ord)]][ord[1]])

MinOf(S) == CHOOSE x \in S : \A y \in S : x <= y

MinCycleCost(m) == MinOf({CycleCost(m, ord) : ord \in Orderings(Size(m))})

\* the pairs (from, to) a closed tour of the ordering traverses
CycleLegs(ord) ==
    {<<ord[k], ord[k + 1]>> : k \in 1..(Len(ord) - 1)} \cup {<<ord[Len(ord)], ord[1]>>}

N == Len(addresses)
Nodes(m) == 0..(Size(m) - 1)
IsSquare(m, n) == Size(m) = n /\ \A i \in DOMAIN m : Size(m[i]) = n
OffDiagonal(m) == {c \in Nodes(m) \X Nodes(m) : c[1] # c[2]}
InfiniteCells(m) == {c \in Nodes(m) \X Nodes(m) : m[c[1]][c[2]] = Inf}
ZeroDiagonal(m) == \A i \in Nodes(m) : m[i][i] = 0
MatrixBuilt == \E k \in 1..Len(trace) : trace[k] = "matrix"
RequestSent == \E k \in 1..Len(trace) : trace[k] = "request"
SolverEntered == \E k \in 1..Len(trace) : trace[k] = "solver"
BuilderEntered == \E k \in 1..Len(trace) : trace[k] = "builder"
FailedCells == {c \in (1..Len(collab.rows)) \X (1..Len(collab.rows)) :
                   collab.rows[c[1]][c[2]].status # "OK"}
Texts(addrs) == [k \in 1..Len(addrs) |-> addrs[k].text]

\* ------------------------------------------------------------------------
\* Claims
\* ------------------------------------------------------------------------

\* C1: for an N x N matrix, 2 <= N <= 4, with finite non-negative entries
\* and zero diagonal, the cost the solver returns is the minimum closed-cycle
\* cost over the orderings that begin at node 0.
C1_CostIsMinimumCycle ==
    (/\ solver.returned
     /\ Size(distance_matrix) \in 2..4
     /\ InfiniteCells(distance_matrix) = {}
     /\ ZeroDiagonal(distance_matrix))
    => solver.cost = MinCycleCost(distance_matrix)

\* C2: for a 2 x 2 matrix with zero diagonal the cost the solver returns is
\* matrix[0][1] + matrix[1][0].
C2_TwoNodeCost ==
    (/\ solver.returned
     /\ Size(distance_matrix) = 2
     /\ ZeroDiagonal(distance_matrix))
    => solver.cost = Add(distance_matrix[0][1], distance_matrix[1][0])

\* C3: with exactly one infinite off-diagonal entry and some finite
\* Hamiltonian cycle through node 0, the returned route read as a closed
\* tour does not traverse the infinite entry and the returned cost is the
\* cost of the cheapest finite Hamiltonian cycle.
C3_AvoidsInfiniteEdge ==
    (/\ solver.returned
     /\ Size(distance_matrix) >= 2
     /\ Cardinality(InfiniteCells(distance_matrix)) = 1
     /\ InfiniteCells(distance_matrix) \subseteq OffDiagonal(distance_matrix)
     /\ MinCycleCost(distance_matrix) < Inf)
    => /\ Len(solver.route) = Size(distance_matrix)
       /\ CycleLegs(solver.route) \cap InfiniteCells(distance_matrix) = {}
       /\ solver.cost = MinCycleCost(distance_matrix)

\* C4: for the input Depot, A, B, C and a collaborator whose distances have
\* the shortest Hamiltonian cycle Depot, A, C, B of cost 10, optimize_route
\* returns success, 10/1000 km and the route Depot, A, C, B or its reverse.
C4_EndToEndScenario ==
    (/\ pc = "done"
     /\ Texts(addresses) = Scenario
     /\ collab.mode = "rows"
     /\ FailedCells = {}
     /\ MinCycleCost(ParseRows(collab.rows)) = 10
     /\ CycleCost(ParseRows(collab.rows), <<0, 1, 3, 2>>) = 10)
    => /\ result.status = "success"
       /\ result.distance_km = [whole |-> 0, milli |-> 10]
       /\ Texts(result.optimized_route) \in
              {<<"Depot", "A", "C", "B">>, <<"Depot", "B", "C", "A">>}

\* C5: for N >= 2 address strings and a collaborator whose every lookup
\* succeeds, optimize_route returns success, the input addresses reordered
\* by the solver's index sequence (every address once, addresses[0] first)
\* and the solver's cost divided by 1000.
C5_SuccessResult ==
    (/\ pc = "done"
     /\ N >= 2
     /\ collab.mode = "rows"
     /\ FailedCells = {})
    => /\ result.status = "success"
       /\ solver.returned
       /\ result.optimized_route = [k \in 1..Len(solver.route) |-> addresses[solver.route[k] + 1]]
       /\ Len(result.optimized_route) = N
       /\ \A k \in 1..N : \E h \in 1..N : result.optimized_route[h] = addresses[k]
       /\ result.optimized_route[1] = addresses[1]
       /\ result.distance_km.whole * 1000 + result.distance_km.milli = solver.cost

\* C6: with zero or one address optimize_route returns success, the input
\* list and distance 0, and neither the builder, the collaborator nor the
\* solver is entered.
C6_DegenerateInput ==
    (pc # "idle" /\ N <= 1)
    => /\ pc = "done"
       /\ result = [status |-> "success", optimized_route |-> addresses,
                    distance_km |-> ZeroKm]
       /\ trace = <<>>
       /\ ~solver.returned
       /\ raised = "none"

C6_Witness ==
    /\ pc = "done"
    /\ N = 1
    /\ result.status = "success"
    /\ result.optimized_route = addresses
    /\ trace = <<>>

\* C7: optimize_route never raises to its caller; its result has status
\* success or error, and whenever an exception occurred in the try block the
\* result is error with the original list and distance 0.
C7_NeverRaises ==
    /\ pc # "propagated"
    /\ pc = "done" => result.status \in {"success", "error"}
    /\ (pc = "done" /\ raised # "none")
       => result = [status |-> "error", optimized_route |-> addresses,
                    distance_km |-> ZeroKm]

C7_Witness ==
    /\ pc = "done"
    /\ raised = "RequestException"
    /\ RequestSent
    /\ N >= 2
    /\ result.status = "error"
    /\ result.optimized_route = addresses

\* C8: when the batch lookup fails as a whole (the request throws, or the
\* response has a non-OK top-level status and no rows) the solver is never
\* given an empty or non-N x N matrix and optimize_route returns error with
\* the original list and distance 0.
C8_BatchFailureIsError ==
    (/\ pc = "done"
     /\ RequestSent
     /\ collab.mode \in {"throw", "rejected"})
    => /\ ~(solver.returned /\ ~IsSquare(distance_matrix, N))
       /\ result = [status |-> "error", optimized_route |-> addresses,
                    distance_km |-> ZeroKm]

\* C9: for a response of N rows of N elements the builder returns a complete
\* N x N matrix whose entry [i][j] is the reported distance when element
\* (i, j) is OK and infinity otherwise; a failed element raises nothing and
\* changes no other entry.
C9_MatrixFromResponse ==
    (RequestSent /\ collab.mode = "rows")
    => /\ MatrixBuilt
       /\ raised = "none"
       /\ IsSquare(distance_matrix, N)
       /\ \A i \in 1..N : \A j \in 1..N :
             distance_matrix[i - 1][j - 1] =
                 IF <<i, j>> \in FailedCells THEN Inf ELSE collab.rows[i][j].value

C9_Witness ==
    /\ MatrixBuilt
    /\ collab.mode = "rows"
    /\ N >= 2
    /\ Cardinality(FailedCells) = 1
    /\ \E i \in 1..N : \E j \in 1..N :
          /\ <<i, j>> \notin FailedCells
          /\ collab.rows[i][j].value > 0
          /\ distance_matrix[i - 1][j - 1] = collab.rows[i][j].value

\* C10: for N >= 3, if exactly one element (i, j), i # j, of the response
\* failed, the matrix is a full N x N matrix with only that entry infinite,
\* the solver returns, and the cost is finite whenever some Hamiltonian
\* cycle through node 0 avoids the failed pair.
C10_FailureIsolation ==
    (/\ pc = "done"
     /\ RequestSent
     /\ N >= 3
     /\ collab.mode = "rows"
     /\ Cardinality(FailedCells) = 1
     /\ \A c \in FailedCells : c[1] # c[2])
    => /\ IsSquare(distance_matrix, N)
       /\ InfiniteCells(distance_matrix) = {<<c[1] - 1, c[2] - 1>> : c \in FailedCells}
       /\ solver.returned
       /\ result.status = "success"
       /\ (\E ord \in Orderings(N) :
              CycleLegs(ord) \cap InfiniteCells(distance_matrix) = {})
          => solver.cost < Inf

C10_Witness ==
    /\ pc = "done"
    /\ N = 3
    /\ collab.mode = "rows"
    /\ FailedCells = {<<2, 1>>}
    /\ solver.returned
    /\ distance_matrix[1][0] = Inf
    /\ solver.cost < Inf
    /\ Len(solver.route) = 3

\* C11: for every N x N matrix with N >= 2, infinite entries included, the
\* returned route has length N, contains each index of 0..N-1 exactly once
\* and begins at node 0.
C11_RouteIsPermutation ==
    (/\ solver.returned
     /\ Size(distance_matrix) >= 2
     /\ IsSquare(distance_matrix, Size(distance_matrix)))
    => /\ Len(solver.route) = Size(distance_matrix)
       /\ {solver.route[k] : k \in 1..Len(solver.route)} = Nodes(distance_matrix)
       /\ solver.route[1] = start_idx

\* C12: for every finite matrix with zero diagonal the returned cost is the
\* cost of the returned route closed back to the start.
C12_CostIsClosedRouteCost ==
    (/\ solver.returned
     /\ Size(distance_matrix) >= 2
     /\ InfiniteCells(distance_matrix) = {}
     /\ ZeroDiagonal(distance_matrix))
    => /\ Len(solver.route) = Size(distance_matrix)
       /\ solver.cost = CycleCost(distance_matrix, solver.route)

\* C13: the matrix the builder returns has matrix[i][i] = 0 for every i,
\* whatever the response reports for an address paired with itself.
C13_ZeroDiagonal ==
    MatrixBuilt => ZeroDiagonal(distance_matrix)

\* C14: when the matrix is built without exception and every tour has
\* infinite cost, optimize_route returns status success with a route and an
\* infinite distance.
C14_InfeasibleIsSuccess ==
    (/\ pc = "done"
     /\ MatrixBuilt
     /\ Size(distance_matrix) >= 2
     /\ IsSquare(distance_matrix, N)
     /\ MinCycleCost(distance_matrix) = Inf)
    => /\ result.status = "success"
       /\ result.distance_km = [whole |-> Inf, milli |-> 0]

\* C15: two solver calls on the same matrix, with any calls on other
\* matrices in between, return the same cost and the same route, and end
\* with the same memo table: the table is created empty in each call and
\* holds nothing of an earlier call.
C15_SameMatrixSameResult ==
    (/\ earlier.returned
     /\ solver.returned
     /\ earlier.matrix = distance_matrix)
    => /\ solver.cost = earlier.cost
       /\ solver.route = earlier.route
       /\ memo = earlier.memo
       /\ \A key \in DOMAIN memo : key[1] \subseteq Nodes(distance_matrix)

C15_Witness ==
    /\ earlier.returned
    /\ earlier.others
    /\ solver.returned
    /\ earlier.matrix = distance_matrix
    /\ Size(distance_matrix) = 2
    /\ solver.cost < Inf
    /\ solver.route = <<0, 1>>
    /\ DOMAIN memo = {<<{0, 1}, 1>>}

\* the cost of an ordering computed the way the solver computes its
\* result: the base value matrix[start][start], then the legs in order
SolverCostOf(m, ord) == Add(m[start_idx][start_idx], PathCost(m, ord))

\* start, then the other nodes of the route in reverse order
ReversedTour(route) ==
    [k \in 1..Len(route) |-> IF k = 1 THEN route[1] ELSE route[Len(route) + 2 - k]]

IsSymmetric(m) == \A i \in Nodes(m) : \A j \in Nodes(m) : m[i][j] = m[j][i]

\* C16: for every symmetric finite matrix with zero diagonal the returned
\* cost equals the cost, computed as the solver computes it, of the
\* discovered tour traversed in reverse from the same start.
C16_ReversalInvariant ==
    (/\ solver.returned
     /\ Size(distance_matrix) >= 2
     /\ InfiniteCells(distance_matrix) = {}
     /\ ZeroDiagonal(distance_matrix)
     /\ IsSymmetric(distance_matrix))
    => /\ Len(solver.route) = Size(distance_matrix)
       /\ solver.cost = SolverCostOf(distance_matrix, ReversedTour(solver.route))

\* the orderings of the nodes of visited that begin at start and end at last
PathsOf(visited, last) ==
    {p \in Perms(visited) : Len(p) >= 1 /\ p[1] = start_idx /\ p[Len(p)] = last}

\* the minimum leg sum over those orderings, infinite when there is none
MinPathCost(m, visited, last) ==
    MinOf({PathCost(m, p) : p \in PathsOf(visited, last)} \cup {Inf})

\* C17: every memoized value of (visited, last) is the minimum cost of a
\* path that starts at start, visits exactly visited and ends at last, plus
\* the return cost matrix[last][start]; the base state has the value
\* matrix[last][start] and the predecessor start.
C17_MemoIsPathPlusReturn ==
    (solver.returned /\ Size(distance_matrix) >= 2)
    => /\ \A key \in DOMAIN memo :
             memo[key][1] = Add(MinPathCost(distance_matrix, key[1], key[2]),
                                distance_matrix[key[2]][start_idx])
       /\ dp(distance_matrix, memo, {start_idx}, start_idx).val
              = <<distance_matrix[start_idx][start_idx], start_idx>>

\* the value dp returns for a state the solver has evaluated
ValueOf(m, visited, last) ==
    IF visited = {start_idx} THEN m[last][start_idx] ELSE memo[<<visited, last>>][1]

\* the candidate cost of city in the loop of the state (visited, last)
Candidate(m, visited, last, city) ==
    Add(ValueOf(m, Xor(visited, last), city), m[city][last])

\* the smallest index of S whose cost is the least
FirstMinimal(S, cost(_)) ==
    CHOOSE c \in S : /\ \A d \in S : cost(c) <= cost(d)
                     /\ \A d \in S : cost(d) = cost(c) => c <= d

\* last_city: the final node of the route
LastCity == IF solver.route = <<>> THEN NoCity ELSE solver.route[Len(solver.route)]

\* C18: in every memoized state the recorded predecessor is the
\* smallest-index city among those attaining the minimal candidate cost,
\* and the chosen final node is the smallest-index last_city # start
\* attaining the minimal total.
C18_TieBreakAscending ==
    (solver.returned /\ Size(distance_matrix) >= 2)
    => /\ \A key \in DOMAIN memo :
             key[1] \ {key[2]} # {}
             => LET cand(c) == Candidate(distance_matrix, key[1], key[2], c)
                IN memo[key][2] = FirstMinimal(key[1] \ {key[2]}, cand)
       /\ LET total(c) == ValueOf(distance_matrix, AllVisited(distance_matrix), c)
          IN LastCity = FirstMinimal(Nodes(distance_matrix) \ {start_idx}, total)

\* the matrix entries a path uses: the legs between its consecutive nodes
EntriesOf(p) == {<<p[k], p[k + 1]>> : k \in 1..(Len(p) - 1)}

\* C19: a memoized cost is infinite exactly when every path that realises
\* the state (from start through exactly visited to last) uses an infinite
\* matrix entry: a finite path is never reported as infinite, a blocked
\* state never receives a finite cost, and every stored cost is a
\* non-negative number or positive infinity.
C19_InfinityPropagates ==
    solver.returned
    => \A key \in DOMAIN memo :
          /\ memo[key][1] >= 0
          /\ memo[key][1] <= Inf
          /\ memo[key][1] = Inf
             <=> \A p \in PathsOf(key[1], key[2]) :
                    EntriesOf(p) \cap InfiniteCells(distance_matrix) # {}

\* C20: the solver terminates: every recursive dp call is made on a visited
\* set with one node fewer than its caller's, and the reconstruction loop
\* runs at most N iterations and stops where no predecessor is recorded.
C20_Terminates ==
    (MatrixBuilt /\ Size(distance_matrix) >= 2 /\ pc = "done")
    => /\ solver.returned
       /\ \A key \in DOMAIN memo :
             /\ key[2] \in key[1]
             /\ Cardinality(Xor(key[1], key[2])) = Cardinality(key[1]) - 1
             /\ \A city \in key[1] \ {key[2]} :
                   \/ Xor(key[1], key[2]) = {start_idx}
                   \/ <<Xor(key[1], key[2]), city>> \in DOMAIN memo
       /\ Len(solver.route) <= Size(distance_matrix)
       /\ solver.route # <<>>
          => MemoGet(memo,
                     AllVisited(distance_matrix)
                         \ {solver.route[k] : k \in 2..Len(solver.route)},
                     solver.route[1])[2] = NoCity

C20_Witness ==
    /\ pc = "done"
    /\ solver.returned
    /\ Size(distance_matrix) = 3
    /\ Len(solver.route) = 3
    /\ solver.route[1] = start_idx
    /\ <<{0, 1, 2}, 2>> \in DOMAIN memo
    /\ <<{0, 1}, 1>> \in DOMAIN memo

\* C21: within one optimize_route call with N >= 2 the phases are strictly
\* ordered: the solver starts only after the builder has returned the
\* complete matrix (every row and element of the response), the result is
\* produced only after the solver has returned, and when the builder fails
\* the solver is never started.
C21_PhasesOrdered ==
    N >= 2
    => /\ pc = "solve"
          => /\ trace = <<"builder", "request", "matrix">>
             /\ raised = "none"
             /\ distance_matrix = ParseRows(collab.rows)
             /\ collab.mode = "rows" => IsSquare(distance_matrix, N)
             /\ ~solver.returned
             /\ result = NoResult
       /\ (SolverEntered \/ solver.returned)
          => /\ trace = <<"builder", "request", "matrix", "solver">>
             /\ solver.returned
             /\ distance_matrix = ParseRows(collab.rows)
             /\ raised = "none"
       /\ result.status = "success" => (pc = "done" /\ solver.returned)
       /\ result.status = "error" => (pc = "done" /\ raised # "none")
       /\ raised # "none"
          => /\ ~MatrixBuilt
             /\ ~SolverEntered
             /\ ~solver.returned
             /\ pc \in {"except", "done"}

C21_Witness ==
    /\ pc = "done"
    /\ N = 3
    /\ trace = <<"builder", "request", "matrix", "solver">>
    /\ IsSquare(distance_matrix, 3)
    /\ solver.returned
    /\ result.status = "success"
    /\ Len(result.optimized_route) = 3

\* the origin/destination pairs a request asks for
PairsOf(request) ==
    {<<request.origins[i], request.destinations[j]>> :
        i \in 1..Len(request.origins), j \in 1..Len(request.destinations)}

\* C22: one optimize_route call with N >= 2 issues exactly one batched
\* request to the distance collaborator, covering all N x N
\* origin/destination pairs, and never a second request or a retry, whether
\* elements of the response failed or the request itself failed.
C22_OneBatchedRequest ==
    (pc = "done" /\ N >= 2)
    => /\ Len(requests) = 1
       /\ Len(requests[1].origins) = N
       /\ Len(requests[1].destinations) = N
       /\ PairsOf(requests[1])
              = {<<addresses[i].text, addresses[j].text>> : i \in 1..N, j \in 1..N}

\* the minimum open-path cost over the orderings that begin at start and
\* visit every node once
MinOpenPathCost(m) == MinOf({PathCost(m, ord) : ord \in Orderings(Size(m))})

\* C23: for every matrix with N >= 2 the cost the solver returns is
\* matrix[start][start] plus the minimum open-path cost over the orderings
\* that begin at start and visit every node once; the return leg
\* matrix[last][start] is never added, and a non-zero or infinite diagonal
\* entry of the start node is added to (or makes infinite) every result.
C23_CostIsDiagonalPlusOpenPath ==
    (/\ solver.returned
     /\ Size(distance_matrix) >= 2
     /\ IsSquare(distance_matrix, Size(distance_matrix)))
    => /\ solver.cost = Add(distance_matrix[start_idx][start_idx],
                            MinOpenPathCost(distance_matrix))
       /\ distance_matrix[start_idx][start_idx] = Inf => solver.cost = Inf
       /\ solver.cost < Inf
          => /\ Len(solver.route) = Size(distance_matrix)
             /\ solver.cost = SolverCostOf(distance_matrix, solver.route)

C23_Witness ==
    /\ solver.returned
    /\ Size(distance_matrix) = 3
    /\ distance_matrix[0][0] = 2
    /\ MinOpenPathCost(distance_matrix) = 11
    /\ distance_matrix[2][0] = 3
    /\ solver.route = <<0, 1, 2>>
    /\ solver.cost = 13
    /\ MinCycleCost(distance_matrix) = 14

\* C24: whenever the cost the solver returns is infinite the returned route
\* is the empty list, and optimize_route then returns status success with
\* optimized_route = [] and an infinite distance: every input address is
\* dropped from the result.
C24_InfiniteCostEmptyRoute ==
    (solver.returned /\ solver.cost = Inf)
    => /\ solver.route = <<>>
       /\ pc = "done"
          => result = [status |-> "success", optimized_route |-> <<>>,
                       distance_km |-> [whole |-> Inf, milli |-> 0]]

C24_Witness ==
    /\ pc = "done"
    /\ N = 3
    /\ IsSquare(distance_matrix, 3)
    /\ distance_matrix[0][0] = Inf
    /\ Cardinality(InfiniteCells(distance_matrix)) = 1
    /\ solver.returned
    /\ solver.cost = Inf
    /\ solver.route = <<>>
    /\ result.status = "success"
    /\ result.optimized_route = <<>>
    /\ result.distance_km.whole = Inf

\* the legs between consecutive nodes of a route
RouteLegs(route) == {<<route[k], route[k + 1]>> : k \in 1..(Len(route) - 1)}

\* C25: whenever the cost the solver returns is finite, the returned route
\* has length N, is a permutation of 0..N-1, has start_idx as its first
\* element, and every leg between consecutive route nodes is a finite
\* matrix entry; the reconstruction is never cut short by a missing
\* predecessor before it reaches start_idx.
C25_FiniteCostFullRoute ==
    (solver.returned /\ solver.cost < Inf)
    => /\ Len(solver.route) = Size(distance_matrix)
       /\ {solver.route[k] : k \in 1..Len(solver.route)} = Nodes(distance_matrix)
       /\ solver.route[1] = start_idx
       /\ \A leg \in RouteLegs(solver.route) :
             distance_matrix[leg[1]][leg[2]] < Inf
       /\ \A k \in 2..Len(solver.route) :
             MemoGet(memo,
                     {solver.route[h] : h \in 1..k},
                     solver.route[k])[2] = solver.route[k - 1]

C25_Witness ==
    /\ solver.returned
    /\ Size(distance_matrix) = 3
    /\ distance_matrix[1][2] = Inf
    /\ solver.cost < Inf
    /\ solver.route = <<0, 2, 1>>
    /\ memo[<<{0, 1, 2}, 1>>] = <<solver.cost, 2>>
    /\ memo[<<{0, 2}, 2>>][2] = start_idx

\* the memoized states no path from start realises: visited lacks start,
\* or the path would end at start after visiting other nodes
StartMisplaced(key) ==
    \/ start_idx \notin key[1]
    \/ key[2] = start_idx /\ Cardinality(key[1]) > 1

\* C26: the start node is never an interior or final node of a costed
\* path: every memoized state (visited, last) in which visited does not
\* contain start, or in which last = start and visited has more than one
\* node, has cost infinity and predecessor -1, for every matrix, the
\* all-finite ones included.
C26_StartOnlyFirst ==
    solver.returned
    => \A key \in DOMAIN memo :
          StartMisplaced(key) => memo[key] = <<Inf, NoCity>>

C26_Witness ==
    /\ solver.returned
    /\ Size(distance_matrix) = 3
    /\ InfiniteCells(distance_matrix) = {}
    /\ solver.cost < Inf
    /\ memo[<<{0, 2}, 0>>] = <<Inf, NoCity>>
    /\ memo[<<{2}, 2>>] = <<Inf, NoCity>>
    /\ memo[<<{0, 2}, 2>>][1] < Inf

\* C27: optimize_route never modifies the caller's address list in any
\* outcome (degenerate, success, error): the list has the same elements in
\* the same order after the call; on the degenerate and error paths the
\* returned optimized_route is that same input list, on the success path it
\* is a newly built list.
C27_CallerListUntouched ==
    pc # "idle"
    => /\ addresses = caller.passed
       /\ pc = "done"
          => /\ (N <= 1 \/ result.status = "error")
                => /\ caller.same_list
                   /\ result.optimized_route = addresses
             /\ (N >= 2 /\ result.status = "success")
                => /\ ~caller.same_list
                   /\ solver.returned
                   /\ result.optimized_route = MapRoute(caller.passed, solver.route)

C27_Witness ==
    /\ pc = "done"
    /\ N = 3
    /\ result.status = "success"
    /\ solver.route = <<0, 2, 1>>
    /\ addresses = caller.passed
    /\ ~caller.same_list
    /\ Texts(addresses) = <<"Depot", "A", "B">>
    /\ Texts(result.optimized_route) = <<"Depot", "B", "A">>

\* C28: in every solver call, every key (visited, last) written to the memo
\* table has last in visited, each key is written at most once and never
\* overwritten, and the base state ({start}, start) is never written, which
\* is why the reconstruction stops at start through the default lookup.
C28_MemoWrites ==
    solver.returned
    => /\ \A k \in 1..Len(written) : written[k][2] \in written[k][1]
       /\ \A j \in 1..Len(written) : \A k \in 1..Len(written) :
             j # k => written[j] # written[k]
       /\ {written[k] : k \in 1..Len(written)} = DOMAIN memo
       /\ \A k \in 1..Len(written) : written[k] # <<{start_idx}, start_idx>>
       /\ solver.route # <<>>
          => /\ solver.route[1] = start_idx
             /\ <<{start_idx}, start_idx>> \notin DOMAIN memo
             /\ MemoGet(memo, {start_idx}, start_idx) = <<0, NoCity>>

C28_Witness ==
    /\ solver.returned
    /\ Size(distance_matrix) = 4
    /\ Len(written) = 27
    /\ Cardinality(DOMAIN memo) = 27
    /\ written[1] = <<{3}, 3>>
    /\ written[27] = <<{0, 1, 2, 3}, 3>>
    /\ solver.route = <<0, 1, 3, 2>>

====
